---------------------------- MODULE Spec2Model ----------------------------
(***************************************************************************)
(* Typed identifiers (index.ts): the prefix registry, the conversion       *)
(* between a UUID and its `prefix_suffix` text form, the zod validator     *)
(* built on it, and type inference.                                        *)
(*                                                                         *)
(* Text is a sequence of one-character strings.  A UUID is its canonical   *)
(* 36-character lowercase text, as randomUUID() and a uuid column give it. *)
(* The calls into typeid-js and zod are modelled by those packages'        *)
(* documented behaviour (TypeID specification 0.3, zod's safeParse): the   *)
(* packages are dependencies, their source is not part of the repository.  *)
(***************************************************************************)
EXTENDS Integers, Sequences, FiniteSets, TLC

VARIABLES nameToPrefix, prefixToName, held, origin, call, result

vars == <<nameToPrefix, prefixToName, held, origin, call, result>>

(***************************************************************************)
(* Bounds of the explored inputs.                                          *)
(***************************************************************************)
\* how many of SampleBytes take part in the UUIDs that are tried
NumByteSamples == 2

\* how many of TamperChars a caller may write over a character of an id
NumTamperChars == 2

(***************************************************************************)
(* Characters.                                                             *)
(***************************************************************************)
\* the characters that occur, in the order of their character codes
Ascii ==
  << "-", "0", "1", "2", "3", "4", "5", "6", "7", "8", "9", "A", "_",
     "a", "b", "c", "d", "e", "f", "g", "h", "i", "j", "k", "l", "m",
     "n", "o", "p", "q", "r", "s", "t", "u", "v", "w", "x", "y", "z" >>

Code(c) == CHOOSE i \in 1..Len(Ascii) : Ascii[i] = c

LowerLetters ==
  { "a", "b", "c", "d", "e", "f", "g", "h", "i", "j", "k", "l", "m",
    "n", "o", "p", "q", "r", "s", "t", "u", "v", "w", "x", "y", "z" }

\* s < t as JavaScript compares strings: by the first differing character
\* code, a proper prefix being the smaller
RECURSIVE StrLess(_, _)
StrLess(s, t) ==
  IF t = << >> THEN FALSE
  ELSE IF s = << >> THEN TRUE
  ELSE IF Head(s) = Head(t) THEN StrLess(Tail(s), Tail(t))
  ELSE Code(Head(s)) < Code(Head(t))

StartsWith(s, p) == Len(s) >= Len(p) /\ SubSeq(s, 1, Len(p)) = p

\* String.prototype.lastIndexOf("_"), 1-based; 0 when there is none
LastUnderscore(s) ==
  LET at == { i \in 1..Len(s) : s[i] = "_" }
  IN  IF at = {} THEN 0 ELSE CHOOSE i \in at : \A j \in at : j <= i

(***************************************************************************)
(* The prefix registry (index.ts, lines 6-20).                             *)
(***************************************************************************)
typeIdLength == 26

\* Object.entries(idTypesMapNameToPrefix): the [name, prefix] pairs in the
\* order the object literal lists them
RegistryEntries ==
  << << << "u", "s", "e", "r" >>,                << "u", "s", "r" >> >>,
     << << "p", "o", "s", "t" >>,                << "p", "s", "t" >> >>,
     << << "c", "o", "m", "m", "e", "n", "t" >>, << "c", "m", "t" >> >> >>

IdTypePrefixNames == { RegistryEntries[i][1] : i \in 1..Len(RegistryEntries) }

idTypesMapNameToPrefix ==
  [ n \in IdTypePrefixNames |->
      LET i == CHOOSE k \in 1..Len(RegistryEntries) : RegistryEntries[k][1] = n
      IN  RegistryEntries[i][2] ]

\* Object.fromEntries(pairs): one key per distinct first component, the
\* last pair with that key giving its value
FromEntries(pairs) ==
  [ k \in { pairs[i][1] : i \in 1..Len(pairs) } |->
      LET at   == { i \in 1..Len(pairs) : pairs[i][1] = k }
          last == CHOOSE i \in at : \A j \in at : j <= i
      IN  pairs[last][2] ]

\* a forgotten swap: the pairs go in as [name, prefix]
PrefixToNameNotSwapped == FromEntries(RegistryEntries)

\* Object.entries(...).map(([x, y]) => [y, x])
idTypesMapPrefixToName ==
  FromEntries([ i \in 1..Len(RegistryEntries) |->
                  << RegistryEntries[i][2], RegistryEntries[i][1] >> ])

\* obj[key] on a plain object: an own key gives its value; "constructor" is
\* found on Object.prototype; any other key gives undefined
\* (values that are no string are written as a one-element tuple)
Undefined == << "undefined" >>
ObjectConstructor == << "[Function: Object]" >>
ConstructorKey == << "c", "o", "n", "s", "t", "r", "u", "c", "t", "o", "r" >>

Lookup(obj, key) ==
  IF key \in DOMAIN obj THEN obj[key]
  ELSE IF key = ConstructorKey THEN ObjectConstructor
  ELSE Undefined

(***************************************************************************)
(* The suffix codec of typeid-js: 16 bytes <-> 26 base-32 symbols.  The    *)
(* 128 bits are preceded by two zero bits and cut into 26 groups of five.  *)
(***************************************************************************)
Alphabet ==
  << "0", "1", "2", "3", "4", "5", "6", "7", "8", "9", "a", "b", "c", "d",
     "e", "f", "g", "h", "j", "k", "m", "n", "p", "q", "r", "s", "t", "v",
     "w", "x", "y", "z" >>

AlphabetSet == { Alphabet[i] : i \in 1..Len(Alphabet) }

SymbolValue(c) == (CHOOSE i \in 1..Len(Alphabet) : Alphabet[i] = c) - 1

\* bit k (0 = the most significant) of the 130-bit group string of 16 bytes
ByteStreamBit(bytes, k) ==
  IF k < 2 THEN 0
  ELSE LET j == k - 2 IN (bytes[(j \div 8) + 1] \div (2 ^ (7 - (j % 8)))) % 2

\* base32 encode(bytes): symbol i holds bits 5(i-1) .. 5(i-1)+4
Encode(bytes) ==
  [ i \in 1..26 |->
      Alphabet[ 1 + ByteStreamBit(bytes, 5 * (i - 1)) * 16
                  + ByteStreamBit(bytes, 5 * (i - 1) + 1) * 8
                  + ByteStreamBit(bytes, 5 * (i - 1) + 2) * 4
                  + ByteStreamBit(bytes, 5 * (i - 1) + 3) * 2
                  + ByteStreamBit(bytes, 5 * (i - 1) + 4) ] ]

\* bit k of the 130-bit string that 26 symbols spell
SymbolStreamBit(s, k) ==
  (SymbolValue(s[(k \div 5) + 1]) \div (2 ^ (4 - (k % 5)))) % 2

\* the bytes of 26 alphabet symbols; the two leading bits fall off, as they
\* do in the byte array decode() fills
DecodeBytes(s) ==
  [ j \in 1..16 |->
      LET b(t) == SymbolStreamBit(s, 2 + 8 * (j - 1) + t)
      IN  b(0) * 128 + b(1) * 64 + b(2) * 32 + b(3) * 16
          + b(4) * 8 + b(5) * 4 + b(6) * 2 + b(7) ]

Thrown(e) == [ ok |-> FALSE, err |-> e ]

\* base32 decode(s): throws on a wrong length or a character outside the
\* alphabet
Decode(s) ==
  IF Len(s) # 26 THEN Thrown("InvalidSuffixLength")
  ELSE IF \E i \in 1..26 : s[i] \notin AlphabetSet
    THEN Thrown("InvalidSuffixCharacter")
  ELSE [ ok |-> TRUE, bytes |-> DecodeBytes(s) ]

(***************************************************************************)
(* UUID text <-> 16 bytes (parseUUID and stringify of typeid-js).          *)
(***************************************************************************)
HexDigits ==
  << "0", "1", "2", "3", "4", "5", "6", "7", "8", "9",
     "a", "b", "c", "d", "e", "f" >>

HexValue(c) == (CHOOSE i \in 1..16 : HexDigits[i] = c) - 1

\* where byte j (1..16) starts in ########-####-####-####-############
HexOffset(j) ==
  2 * (j - 1) + 1
    + (IF j > 4 THEN 1 ELSE 0) + (IF j > 6 THEN 1 ELSE 0)
    + (IF j > 8 THEN 1 ELSE 0) + (IF j > 10 THEN 1 ELSE 0)

ParseUUID(text) ==
  [ j \in 1..16 |->
      HexValue(text[HexOffset(j)]) * 16 + HexValue(text[HexOffset(j) + 1]) ]

StringifyUUID(bytes) ==
  [ p \in 1..36 |->
      IF p \in { 9, 14, 19, 24 } THEN "-"
      ELSE LET j == CHOOSE k \in 1..16 : p \in { HexOffset(k), HexOffset(k) + 1 }
           IN  IF p = HexOffset(j) THEN HexDigits[(bytes[j] \div 16) + 1]
               ELSE HexDigits[(bytes[j] % 16) + 1] ]

(***************************************************************************)
(* TypeID of typeid-js.  A call gives [ok |-> TRUE, prefix, suffix] or     *)
(* throws, which is [ok |-> FALSE, err].                                   *)
(***************************************************************************)
\* isValidPrefix: at most 63 of a-z and "_", no "_" first or last
IsValidPrefix(p) ==
  /\ Len(p) <= 63
  /\ \A i \in 1..Len(p) : p[i] \in LowerLetters \cup { "_" }
  /\ p # << >> => (p[1] # "_" /\ p[Len(p)] # "_")

\* new TypeID(prefix, suffix) with a suffix given: the checks of the
\* constructor, in their order
TypeIDNew(prefix, suffix) ==
  IF ~IsValidPrefix(prefix) THEN Thrown("InvalidPrefix")
  ELSE IF Len(suffix) # 26 THEN Thrown("InvalidSuffixLength")
  ELSE IF Code(suffix[1]) > Code("7") THEN Thrown("InvalidSuffixCharacter")
  ELSE IF ~Decode(suffix).ok THEN Thrown(Decode(suffix).err)
  ELSE [ ok |-> TRUE, prefix |-> prefix, suffix |-> suffix ]

\* TypeID.fromString(str): split at the last "_"
TypeIDFromString(str) ==
  LET u == LastUnderscore(str)
      p == IF u = 0 THEN << >> ELSE SubSeq(str, 1, u - 1)
      s == IF u = 0 THEN str ELSE SubSeq(str, u + 1, Len(str))
  IN  IF u # 0 /\ p = << >> THEN Thrown("EmptyPrefix")
      ELSE IF s = << >> THEN Thrown("InvalidSuffixLength")
      ELSE TypeIDNew(p, s)

\* TypeID.fromUUID(prefix, uuid)
TypeIDFromUUID(prefix, uuid) == TypeIDNew(prefix, Encode(ParseUUID(uuid)))

\* tid.toString()
TypeIDToString(tid) ==
  IF tid.prefix = << >> THEN tid.suffix
  ELSE tid.prefix \o << "_" >> \o tid.suffix

\* tid.asType(prefix): throws unless the prefix is tid's own
TypeIDAsType(tid, prefix) ==
  IF tid.prefix # prefix THEN Thrown("PrefixMismatch") ELSE tid

(***************************************************************************)
(* The operations of index.ts.  What a call gives its caller is            *)
(*   Returned(v), ...     the value it returns,                            *)
(*   Threw(e)             an exception that leaves the call,               *)
(* and for safeParse a zod result: ParseSuccess(data) or                   *)
(* ParseFailure(issues).                                                   *)
(***************************************************************************)
\* a returned string (or undefined), a returned boolean, and the object
\* { uuid, prefix } that typeIdToUUID returns
Returned(v) == [ status |-> "returned", value |-> v ]
ReturnedBool(b) == [ status |-> "returned", truth |-> b ]
ReturnedPair(u, p) == [ status |-> "returned", uuid |-> u, prefix |-> p ]
Threw(e) == [ status |-> "throws", error |-> e ]
ParseSuccess(d) == [ status |-> "success", data |-> d ]
ParseFailure(i) == [ status |-> "failure", issues |-> i ]

\* a value of type unknown: a string with its characters, or something else
StringData(chars) == [ kind |-> "string", chars |-> chars ]
NumberData == [ kind |-> "number", chars |-> << >> ]

\* the validator without its startsWith check
typeIdValidatorNoStartsWith(prefix, data) ==
  LET actual == nameToPrefix[prefix]
      want   == typeIdLength + Len(actual) + 1
      tid    == TypeIDFromString(data.chars)
  IN  IF data.kind # "string" THEN ParseFailure(<< "invalid_type" >>)
      ELSE IF Len(data.chars) < want THEN ParseFailure(<< "too_small" >>)
      ELSE IF Len(data.chars) > want THEN ParseFailure(<< "too_big" >>)
      ELSE IF ~tid.ok THEN Threw(tid.err)
      ELSE IF ~TypeIDAsType(tid, actual).ok
        THEN Threw(TypeIDAsType(tid, actual).err)
      ELSE ParseSuccess(TypeIDToString(tid))

\* the validator with the separator left out of the expected length
typeIdValidatorNoSeparatorLength(prefix, data) ==
  LET actual == nameToPrefix[prefix]
      want   == typeIdLength + Len(actual)
      starts == IF StartsWith(data.chars, actual \o << "_" >>)
                  THEN << >> ELSE << "startsWith" >>
      length == IF Len(data.chars) < want THEN << "too_small" >>
                ELSE IF Len(data.chars) > want THEN << "too_big" >>
                ELSE << >>
      tid    == TypeIDFromString(data.chars)
  IN  IF data.kind # "string" THEN ParseFailure(<< "invalid_type" >>)
      ELSE IF starts \o length # << >> THEN ParseFailure(starts \o length)
      ELSE IF ~tid.ok THEN Threw(tid.err)
      ELSE IF ~TypeIDAsType(tid, actual).ok
        THEN Threw(TypeIDAsType(tid, actual).err)
      ELSE ParseSuccess(TypeIDToString(tid))

\* typeIdValidator(prefix).safeParse(data): z.string(), then both checks
\* (each adds its issue), then, with no issue, the transform; what the
\* transform throws leaves safeParse as an exception
typeIdValidator(prefix, data) ==
  LET actual == nameToPrefix[prefix]
      want   == typeIdLength + Len(actual) + 1
      starts == IF StartsWith(data.chars, actual \o << "_" >>)
                  THEN << >> ELSE << "startsWith" >>
      length == IF Len(data.chars) < want THEN << "too_small" >>
                ELSE IF Len(data.chars) > want THEN << "too_big" >>
                ELSE << >>
      tid    == TypeIDFromString(data.chars)
  IN  IF data.kind # "string" THEN ParseFailure(<< "invalid_type" >>)
      ELSE IF starts \o length # << >> THEN ParseFailure(starts \o length)
      ELSE IF ~tid.ok THEN Threw(tid.err)
      ELSE IF ~TypeIDAsType(tid, actual).ok
        THEN Threw(TypeIDAsType(tid, actual).err)
      ELSE ParseSuccess(TypeIDToString(tid))

\* typeIdGenerator(prefix): typeid(actualPrefix) on the 16 bytes `fresh`
\* that the UUIDv7 source hands out
typeIdGenerator(prefix, fresh) ==
  LET tid == TypeIDNew(nameToPrefix[prefix], Encode(fresh))
  IN  IF tid.ok THEN Returned(TypeIDToString(tid)) ELSE Threw(tid.err)

\* the name passed on as if it were the wire prefix
typeIdFromUUIDByName(prefix, uuid) ==
  LET tid == TypeIDFromUUID(prefix, uuid)
  IN  IF tid.ok THEN Returned(TypeIDToString(tid)) ELSE Threw(tid.err)

\* the UUID's bytes taken in the opposite order
typeIdFromUUIDReversed(prefix, uuid) ==
  LET bytes == ParseUUID(uuid)
      tid   == TypeIDNew(nameToPrefix[prefix],
                         Encode([ j \in 1..16 |-> bytes[17 - j] ]))
  IN  IF tid.ok THEN Returned(TypeIDToString(tid)) ELSE Threw(tid.err)

typeIdFromUUID(prefix, uuid) ==
  LET actualPrefix == nameToPrefix[prefix]
      tid          == TypeIDFromUUID(actualPrefix, uuid)
  IN  IF tid.ok THEN Returned(TypeIDToString(tid)) ELSE Threw(tid.err)

typeIdToUUID(input) ==
  LET id == TypeIDFromString(input)
  IN  IF ~id.ok THEN Threw(id.err)
      ELSE ReturnedPair(StringifyUUID(DecodeBytes(id.suffix)), id.prefix)

\* a guard that looks at the length alone
validateTypeIdLengthOnly(prefix, data) ==
  ReturnedBool(data.kind = "string"
               /\ Len(data.chars) = typeIdLength + Len(nameToPrefix[prefix]) + 1)

validateTypeId(prefix, data) ==
  LET r == typeIdValidator(prefix, data)
  IN  IF r.status = "throws" THEN r ELSE ReturnedBool(r.status = "success")

\* the lookup made in the forward map
inferTypeIdForwardMap(input) ==
  LET tid == TypeIDFromString(input)
  IN  IF ~tid.ok THEN Threw(tid.err)
      ELSE Returned(Lookup(nameToPrefix, tid.prefix))

inferTypeId(input) ==
  LET tid == TypeIDFromString(input)
  IN  IF ~tid.ok THEN Threw(tid.err)
      ELSE Returned(Lookup(prefixToName, tid.prefix))

(***************************************************************************)
(* The inputs that are tried.                                              *)
(***************************************************************************)
SampleBytes == << 1, 255, 128, 85, 170, 127, 2, 64 >>

\* UUIDs: every byte 0, or every byte 255, but for one byte that holds a
\* sample; all-ones and the value 1 are among them
UuidBytes ==
  { [ j \in 1..16 |-> IF j = p THEN SampleBytes[k] ELSE f ] :
      p \in 1..16, k \in 1..NumByteSamples, f \in { 0, 255 } }

UuidInputs == { StringifyUUID(b) : b \in UuidBytes }

UuidOne == StringifyUUID([ j \in 1..16 |-> IF j = 16 THEN 1 ELSE 0 ])

TamperChars == << "i", "8", "A", "_" >>

ValidSuffixOne == [ i \in 1..26 |-> IF i = 26 THEN "1" ELSE "0" ]

\* what a caller may receive from outside
ExternalCandidates ==
  { \* example.ts, line 31: "usr_invalid123"
    StringData(<< "u", "s", "r", "_", "i", "n", "v", "a", "l", "i", "d",
                  "1", "2", "3" >>),
    \* example.ts, line 47: "post_123456789012345678901234"
    StringData(<< "p", "o", "s", "t", "_" >>
               \o [ i \in 1..24 |-> Ascii[2 + (i % 10)] ]),
    \* the right prefix and length, a suffix of 26 times "i"
    StringData(<< "u", "s", "r", "_" >> \o [ i \in 1..26 |-> "i" ]),
    \* the right prefix and length, a suffix past 128 bits
    StringData(<< "u", "s", "r", "_", "8" >> \o [ i \in 1..25 |-> "z" ]),
    \* a well-formed identifier of a prefix nobody registered
    StringData(<< "a", "b", "c", "_" >> \o ValidSuffixOne),
    StringData(ConstructorKey \o << "_" >> \o ValidSuffixOne),
    \* no prefix at all; an empty prefix before the separator; nothing
    StringData(ValidSuffixOne),
    StringData(<< "_" >> \o ValidSuffixOne),
    StringData(<< >>),
    \* not a string
    NumberData }

(***************************************************************************)
(* The state: the two registry maps, the identifier or candidate the       *)
(* caller holds and where it came from, and the query made on it with its  *)
(* outcome.  The operations keep nothing between calls, so a run follows   *)
(* one identifier at a time: it is minted or received, perhaps damaged,    *)
(* queried once, and discarded.                                            *)
(***************************************************************************)
NoCall == [ op |-> "none", name |-> << >> ]
NoResult == [ status |-> "none" ]

Init ==
  /\ nameToPrefix = idTypesMapNameToPrefix
  /\ prefixToName = idTypesMapPrefixToName
  /\ held = StringData(<< >>)
  /\ origin = [ how |-> "none", name |-> << >>, uuid |-> << >> ]
  /\ call = NoCall
  /\ result = NoResult

\* const id = typeIdGenerator(name)
Generate(name, uuid) ==
  LET r == typeIdGenerator(name, ParseUUID(uuid))
  IN  /\ origin.how = "none"
      /\ r.status = "returned"
      /\ held' = StringData(r.value)
      /\ origin' = [ how |-> "generate", name |-> name, uuid |-> uuid ]
      /\ call' = NoCall
      /\ result' = NoResult
      /\ UNCHANGED << nameToPrefix, prefixToName >>

\* const id = typeIdFromUUID(name, uuid)
FromUUID(name, uuid) ==
  LET r == typeIdFromUUID(name, uuid)
  IN  /\ origin.how = "none"
      /\ r.status = "returned"
      /\ held' = StringData(r.value)
      /\ origin' = [ how |-> "fromUUID", name |-> name, uuid |-> uuid ]
      /\ call' = NoCall
      /\ result' = NoResult
      /\ UNCHANGED << nameToPrefix, prefixToName >>

\* a candidate arrives from outside
Supply(c) ==
  /\ origin.how = "none"
  /\ held' = c
  /\ origin' = [ how |-> "supplied", name |-> << >>, uuid |-> << >> ]
  /\ call' = NoCall
  /\ result' = NoResult
  /\ UNCHANGED << nameToPrefix, prefixToName >>

\* one character of a minted identifier is overwritten on its way
Tamper(pos, k) ==
  /\ origin.how \in { "generate", "fromUUID" }
  /\ pos \in 1..Len(held.chars)
  /\ held.chars[pos] # TamperChars[k]
  /\ held' = StringData([ held.chars EXCEPT ![pos] = TamperChars[k] ])
  /\ origin' = [ origin EXCEPT !.how = "tampered" ]
  /\ call' = NoCall
  /\ result' = NoResult
  /\ UNCHANGED << nameToPrefix, prefixToName >>

\* a minted identifier loses its last character
Truncate ==
  /\ origin.how \in { "generate", "fromUUID" }
  /\ held' = StringData(SubSeq(held.chars, 1, Len(held.chars) - 1))
  /\ origin' = [ origin EXCEPT !.how = "truncated" ]
  /\ call' = NoCall
  /\ result' = NoResult
  /\ UNCHANGED << nameToPrefix, prefixToName >>

\* the caller lets go of what it holds and is ready for the next identifier
Discard ==
  /\ origin.how # "none"
  /\ held' = StringData(<< >>)
  /\ origin' = [ how |-> "none", name |-> << >>, uuid |-> << >> ]
  /\ call' = NoCall
  /\ result' = NoResult
  /\ UNCHANGED << nameToPrefix, prefixToName >>

\* typeIdValidator(name).safeParse(held)
SafeParse(name) ==
  /\ origin.how # "none"
  /\ call = NoCall
  /\ call' = [ op |-> "safeParse", name |-> name ]
  /\ result' = typeIdValidator(name, held)
  /\ UNCHANGED << nameToPrefix, prefixToName, held, origin >>

\* validateTypeId(name, held)
Validate(name) ==
  /\ origin.how # "none"
  /\ call = NoCall
  /\ call' = [ op |-> "validate", name |-> name ]
  /\ result' = validateTypeId(name, held)
  /\ UNCHANGED << nameToPrefix, prefixToName, held, origin >>

\* typeIdToUUID(held); its parameter is a string
ToUUID ==
  /\ origin.how # "none"
  /\ call = NoCall
  /\ held.kind = "string"
  /\ call' = [ op |-> "toUUID", name |-> << >> ]
  /\ result' = typeIdToUUID(held.chars)
  /\ UNCHANGED << nameToPrefix, prefixToName, held, origin >>

\* inferTypeId(held); its parameter is a string
Infer ==
  /\ origin.how # "none"
  /\ call = NoCall
  /\ held.kind = "string"
  /\ call' = [ op |-> "infer", name |-> << >> ]
  /\ result' = inferTypeId(held.chars)
  /\ UNCHANGED << nameToPrefix, prefixToName, held, origin >>

Next ==
  \/ \E name \in DOMAIN nameToPrefix, uuid \in UuidInputs : Generate(name, uuid)
  \/ \E name \in DOMAIN nameToPrefix, uuid \in UuidInputs : FromUUID(name, uuid)
  \/ \E c \in ExternalCandidates : Supply(c)
  \/ \E pos \in 1..(typeIdLength + 4), k \in 1..NumTamperChars : Tamper(pos, k)
  \/ Truncate
  \/ Discard
  \/ \E name \in DOMAIN nameToPrefix : SafeParse(name)
  \/ \E name \in DOMAIN nameToPrefix : Validate(name)
  \/ ToUUID
  \/ Infer

Spec == Init /\ [][Next]_vars

(***************************************************************************)
(* Properties.                                                             *)
(***************************************************************************)
User == << "u", "s", "e", "r" >>
Post == << "p", "o", "s", "t" >>
Usr == << "u", "s", "r" >>

Minted == origin.how \in { "fromUUID", "generate" }

\* the last 26 characters of an identifier
SuffixOf(chars) == SubSeq(chars, Len(chars) - 25, Len(chars))

\* a suffix the codec decodes: 26 alphabet symbols, at most 128 bits
SuffixDecodes(s) ==
  /\ Len(s) = 26
  /\ \A i \in 1..26 : s[i] \in AlphabetSet
  /\ SymbolValue(s[1]) <= 7

\* `chars` is prefix, "_", and 26 further characters
HasShape(chars, prefix) ==
  /\ Len(chars) = Len(prefix) + 1 + 26
  /\ StartsWith(chars, prefix \o << "_" >>)

\* C1: converting a UUID to an identifier of type T and back gives the wire
\* prefix of T and the same UUID.
RoundTrip ==
  (call.op = "toUUID" /\ origin.how = "fromUUID") =>
    result = ReturnedPair(origin.uuid, idTypesMapNameToPrefix[origin.name])

RoundTripWitness ==
  /\ call.op = "toUUID"
  /\ origin = [ how |-> "fromUUID", name |-> User, uuid |-> UuidOne ]
  /\ result.status = "returned"
  /\ result.prefix = Usr

\* C2: validateTypeId(T, candidate) returns true exactly when the candidate
\* is a string of the right length that starts with the prefix of T and "_"
\* and whose 26 last characters decode; in every other case it returns
\* false.
ValidateIffWellFormed ==
  call.op = "validate" =>
    result = ReturnedBool(
               /\ held.kind = "string"
               /\ HasShape(held.chars, idTypesMapNameToPrefix[call.name])
               /\ SuffixDecodes(SuffixOf(held.chars)))

\* C3: every failure of an identifier operation reaches the caller as a
\* failure value: no call throws, and none returns a placeholder for an
\* identifier it could not make sense of.
ErrorsAreStructured ==
  /\ result.status # "throws"
  /\ (call.op = "infer" /\ result.status = "returned") =>
       result.value \in IdTypePrefixNames

\* C4: a candidate with the prefix of T, the right length and a suffix
\* character outside the alphabet makes validateTypeId(T, candidate) return
\* false.
BadAlphabetIsFalse ==
  ( /\ call.op = "validate"
    /\ held.kind = "string"
    /\ HasShape(held.chars, idTypesMapNameToPrefix[call.name])
    /\ \E i \in 1..26 : SuffixOf(held.chars)[i] \notin AlphabetSet )
  => result = ReturnedBool(FALSE)

\* C5: an identifier made for type U is not valid for another type T.
CrossTypeRejected ==
  (call.op = "validate" /\ origin.how = "fromUUID" /\ origin.name # call.name)
  => result = ReturnedBool(FALSE)

CrossTypeRejectedWitness ==
  /\ call = [ op |-> "validate", name |-> User ]
  /\ origin.how = "fromUUID"
  /\ origin.name = Post
  /\ SuffixDecodes(SuffixOf(held.chars))
  /\ result = ReturnedBool(FALSE)

\* C6: safeParse for type T of the prefix of another type U, "_" and a valid
\* suffix is a failure that names the prefix check, never a success.
CrossTypeParseFails ==
  \A U \in IdTypePrefixNames :
    ( /\ call.op = "safeParse"
      /\ U # call.name
      /\ held.kind = "string"
      /\ HasShape(held.chars, idTypesMapNameToPrefix[U])
      /\ SuffixDecodes(SuffixOf(held.chars)) )
    => ( /\ result.status = "failure"
         /\ \E i \in 1..Len(result.issues) : result.issues[i] = "startsWith" )

CrossTypeParseFailsWitness ==
  /\ call = [ op |-> "safeParse", name |-> Post ]
  /\ Minted
  /\ origin.name = User
  /\ result = ParseFailure(<< "startsWith" >>)

\* C7: the type name inferred from an identifier made for type T, from a
\* UUID or generated, is T; the identifier of "user" and the value 1 has 30
\* characters and starts with "usr_".
InferInvertsWrapping ==
  /\ (call.op = "infer" /\ Minted) => result = Returned(origin.name)
  /\ (origin.how = "fromUUID" /\ origin.name = User /\ origin.uuid = UuidOne)
       => (Len(held.chars) = 30 /\ StartsWith(held.chars, Usr \o << "_" >>))

InferInvertsWrappingWitness ==
  /\ call.op = "infer"
  /\ origin = [ how |-> "fromUUID", name |-> User, uuid |-> UuidOne ]
  /\ held.chars = Usr \o << "_" >> \o ValidSuffixOne
  /\ result = Returned(User)

\* C8: inferTypeId fails with UnknownPrefix on a well-formed identifier of
\* an unregistered prefix, fails on a malformed string, and never returns
\* anything but a registered type name.
InferFailsOrRegistered ==
  call.op = "infer" =>
    LET tid == TypeIDFromString(held.chars)
    IN  IF tid.ok /\ tid.prefix \notin DOMAIN idTypesMapPrefixToName
          THEN result = Threw("UnknownPrefix")
        ELSE IF ~tid.ok THEN result.status = "throws"
        ELSE result.status = "returned" /\ result.value \in IdTypePrefixNames

\* unsigned comparison of two 128-bit values given as their 16 bytes
RECURSIVE BytesLess(_, _)
BytesLess(a, b) ==
  IF a = << >> THEN FALSE
  ELSE IF Head(a) = Head(b) THEN BytesLess(Tail(a), Tail(b))
  ELSE Head(a) < Head(b)

\* C9: of two UUIDs, the smaller one gets the smaller suffix, in string
\* order, in the identifiers of one type.
SuffixOrder ==
  (origin.how = "fromUUID" /\ call = NoCall) =>
    \A w \in UuidInputs :
      LET other == SuffixOf(typeIdFromUUID(origin.name, w).value)
          mine  == SuffixOf(held.chars)
      IN  /\ BytesLess(ParseUUID(w), ParseUUID(origin.uuid))
            => StrLess(other, mine)
          /\ BytesLess(ParseUUID(origin.uuid), ParseUUID(w))
            => StrLess(mine, other)

SuffixOrderWitness ==
  /\ origin.how = "fromUUID"
  /\ call = NoCall
  /\ \E w \in UuidInputs : BytesLess(ParseUUID(w), ParseUUID(origin.uuid))
  /\ \E w \in UuidInputs : BytesLess(ParseUUID(origin.uuid), ParseUUID(w))

\* C10: the two registry maps are each other's inverse, no two type names
\* share a prefix, and the maps stay as they were built.
RegistryBijection ==
  /\ \A n \in DOMAIN nameToPrefix :
       /\ nameToPrefix[n] \in DOMAIN prefixToName
       /\ prefixToName[nameToPrefix[n]] = n
  /\ \A p \in DOMAIN prefixToName :
       /\ prefixToName[p] \in DOMAIN nameToPrefix
       /\ nameToPrefix[prefixToName[p]] = p
  /\ \A n, m \in DOMAIN nameToPrefix :
       nameToPrefix[n] = nameToPrefix[m] => n = m
  /\ nameToPrefix = idTypesMapNameToPrefix
  /\ prefixToName = idTypesMapPrefixToName

RegistryBijectionWitness ==
  /\ call.op = "infer"
  /\ origin.how = "generate"
  /\ result.status = "returned"
  /\ prefixToName[nameToPrefix[origin.name]] = result.value

\* C11: an identifier made for type T, from a UUID or generated, is accepted
\* by the validator of T with data equal to the identifier, and the type
\* guard of T answers true; whatever the validator accepts it hands back
\* unchanged.
AcceptanceIsIdentity ==
  /\ (call.op = "safeParse" /\ Minted /\ origin.name = call.name)
       => result = ParseSuccess(held.chars)
  /\ (call.op = "validate" /\ Minted /\ origin.name = call.name)
       => result = ReturnedBool(TRUE)
  /\ (call.op = "safeParse" /\ result.status = "success")
       => result.data = held.chars

AcceptanceIsIdentityWitness ==
  /\ call = [ op |-> "safeParse", name |-> User ]
  /\ origin.how = "generate"
  /\ origin.name = User
  /\ StartsWith(held.chars, Usr \o << "_" >>)
  /\ result.status = "success"
  /\ result.data = held.chars

=============================================================================
